---- MODULE Spec2Model ----
(***************************************************************************)
(* A model of TelcoDataGenerator (src/data_generator.py): the synthetic    *)
(* telecom dataset generator and its derived customer metrics.             *)
(*                                                                         *)
(* Units.  Money is held in cents (monthly_fee 35.99 is 3599); amounts     *)
(* before rounding are held in 1/100 cent.  A date is a day number; a      *)
(* datetime is a record [day, tick], tick being the timer reading within   *)
(* the process's clock.  A string the code searches or formats is a        *)
(* sequence of characters; customer and subscription ids are the prefix    *)
(* followed by their digits, see CustomerIdText.                           *)
(*                                                                         *)
(* Randomness.  The three generators the source uses (random, numpy.random *)
(* and Faker's own random.Random) are deterministic functions of their     *)
(* state.  Each is modelled by a small linear congruential generator; one  *)
(* logical draw advances the state once.  The seed (42 in the source) is   *)
(* drawn from Seeds, so that the model covers several streams.             *)
(***************************************************************************)
EXTENDS Integers, Sequences, FiniteSets, TLC

VARIABLES
    numCustomers,   \* self.num_customers
    seed,           \* the value given to random.seed, np.random.seed, Faker.seed
    rnd,            \* state of the random module's generator
    nprnd,          \* state of numpy.random's generator
    fk,             \* state of Faker's generator
    now,            \* the wall clock: [day, tick]
    clockStep,      \* timer ticks that pass between two reads of the clock
    pc,             \* position in generate_all_data
    idx,            \* iterations done by the loop of the current stage
    chosen,         \* the sampled frame the current stage iterates
    customers, plans, services, usage, billing, tickets, surveys, metrics,
    result,         \* what generate_all_data returned, or NoResult
    prev,           \* what the previous run returned, or NoResult
    run             \* number of the current run

vars == <<numCustomers, seed, rnd, nprnd, fk, now, clockStep, pc, idx, chosen,
          customers, plans, services, usage, billing, tickets, surveys, metrics,
          result, prev, run>>

(***************************************************************************)
(* Bounds of the model.                                                    *)
(***************************************************************************)
MaxSeed == 11
MaxCustomers == 3
MaxTickets == 4
MaxSurveys == 2
VarBills == 3

Seeds == 0..MaxSeed
\* customer counts given to the constructor: malformed (-1, 0) and well-formed
CustomerCounts == (0 - 1)..MaxCustomers
\* the days on which a run may start: 2026-03-31 and 2026-11-06
RunDays == {20543, 20763}

\* a value that may be absent (Python's None) is a sequence of at most one
\* element
None == <<>>
Some(v) == <<v>>
ValueOf(x) == x[1]
NoResult == None

(***************************************************************************)
(* Arithmetic helpers.                                                     *)
(***************************************************************************)
Min(a, b) == IF a <= b THEN a ELSE b
Max(a, b) == IF a >= b THEN a ELSE b

\* num/den rounded to the nearest integer, ties to even (Python's round and
\* numpy's rint); den > 0, num >= 0
RoundHalfEven(num, den) ==
    LET q == num \div den
        r == num % den
    IN  IF 2 * r < den THEN q
        ELSE IF 2 * r > den THEN q + 1
        ELSE IF q % 2 = 0 THEN q ELSE q + 1

RECURSIVE SumRange(_, _, _)
SumRange(s, lo, hi) ==
    IF lo > hi THEN 0
    ELSE IF lo = hi THEN s[lo]
    ELSE LET mid == (lo + hi) \div 2
         IN  SumRange(s, lo, mid) + SumRange(s, mid + 1, hi)
\* the sum of a sequence of numbers
SumSeq(s) == SumRange(s, 1, Len(s))

(***************************************************************************)
(* The pseudo-random generators.                                           *)
(***************************************************************************)
\* a multiplicative congruential (Lehmer) generator: the state is in
\* 1..RngModulus - 1 and the multiplier is a primitive root of the modulus
RngModulus == 46337
RngMultiplier == 223

\* one step of a generator
Advance(s) == (s * RngMultiplier) % RngModulus

RECURSIVE PowerMod(_)
\* RngMultiplier to the power n, modulo RngModulus
PowerMod(n) ==
    IF n = 0 THEN 1
    ELSE LET h == PowerMod(n \div 2)
             sq == (h * h) % RngModulus
         IN  IF n % 2 = 0 THEN sq ELSE (sq * RngMultiplier) % RngModulus

\* the state after n draws whose values the model does not keep
Skip(s, n) == (PowerMod(n) * s) % RngModulus

\* random.seed(a) / Faker.seed(a): both seed a random.Random the same way
RandomSeed(a) == ((a + 1) * 7919) % RngModulus
\* np.random.seed(a): numpy initialises its state from the seed differently
NumpySeed(a) == ((a + 1) * 31337) % RngModulus

\* random.randint(a, b), random.choice over b - a + 1 items, on state s
RandInt(s, a, b) == a + (s % (b - a + 1))
\* random.random() < num/den, on state s
RandomBelow(s, num, den) == s * den < num * RngModulus
\* random.uniform(a, b) on state s, in the unit a and b are given in: the
\* fraction drawn is kept to three decimals
Uniform(s, a, b) == a + ((b - a) * (s % 1000)) \div 1000

RECURSIVE ChoicesFrom(_, _, _, _, _)
ChoicesFrom(s, weights, total, i, cum) ==
    IF i >= Len(weights) THEN i
    ELSE IF s * total < (cum + weights[i]) * RngModulus THEN i
    ELSE ChoicesFrom(s, weights, total, i + 1, cum + weights[i])
\* random.choices(population, weights)[0]: the index (1-based) drawn on state s
Choices(s, weights) == ChoicesFrom(s, weights, SumSeq(weights), 1, 0)

(***************************************************************************)
(* Text.  A string is a sequence of characters.                            *)
(***************************************************************************)
RECURSIVE Digits(_, _)
\* n zero-padded to width digits, as format spec 0<width>d does
Digits(n, width) ==
    IF width = 0 /\ n = 0 THEN <<>>
    ELSE Digits(n \div 10, Max(width - 1, 0)) \o <<n % 10>>

\* f"CUST_{i:06d}", f"SVC_{k:08d}": prefix and digits
CustomerIdText(i) == <<"CUST_">> \o Digits(i, 6)
ServiceIdText(k) == <<"SVC_">> \o Digits(k, 8)

\* whether pat occurs in text at position i
MatchAt(text, pat, i) ==
    /\ i + Len(pat) - 1 <= Len(text)
    /\ \A j \in 1..Len(pat) : text[i + j - 1] = pat[j]
\* Series.str.contains of one literal
Contains(text, pat) == \E i \in 1..Len(text) : MatchAt(text, pat, i)
\* Series.str.contains of an alternation lit1|lit2|...
ContainsAny(text, pats) == \E p \in pats : Contains(text, p)

(***************************************************************************)
(* generate_service_plans: the fixed catalog.                              *)
(***************************************************************************)
PlanCatalog ==
    <<
      [plan_id |-> 1, plan_name |-> <<"B","a","s","i","c"," ","M","o","b","i","l","e">>,
       service_type |-> "Mobile", monthly_fee |-> 3599],
      [plan_id |-> 2, plan_name |-> <<"P","r","e","m","i","u","m"," ","M","o","b","i","l","e">>,
       service_type |-> "Mobile", monthly_fee |-> 5599],
      [plan_id |-> 3, plan_name |-> <<"U","l","t","i","m","a","t","e"," ","M","o","b","i","l","e">>,
       service_type |-> "Mobile", monthly_fee |-> 8599],
      [plan_id |-> 4, plan_name |-> <<"H","o","m","e"," ","I","n","t","e","r","n","e","t"," ","B","a","s","i","c">>,
       service_type |-> "Internet", monthly_fee |-> 4999],
      [plan_id |-> 5, plan_name |-> <<"H","o","m","e"," ","I","n","t","e","r","n","e","t"," ","P","r","o">>,
       service_type |-> "Internet", monthly_fee |-> 6999],
      [plan_id |-> 6, plan_name |-> <<"H","o","m","e"," ","I","n","t","e","r","n","e","t"," ","G","i","g","a","b","i","t">>,
       service_type |-> "Internet", monthly_fee |-> 9999],
      [plan_id |-> 7, plan_name |-> <<"B","a","s","i","c"," ","T","V">>,
       service_type |-> "TV", monthly_fee |-> 3999],
      [plan_id |-> 8, plan_name |-> <<"P","r","e","m","i","u","m"," ","T","V">>,
       service_type |-> "TV", monthly_fee |-> 7999],
      [plan_id |-> 9, plan_name |-> <<"B","u","s","i","n","e","s","s"," ","M","o","b","i","l","e">>,
       service_type |-> "Mobile", monthly_fee |-> 4599],
      [plan_id |-> 10, plan_name |-> <<"B","u","s","i","n","e","s","s"," ","I","n","t","e","r","n","e","t">>,
       service_type |-> "Internet", monthly_fee |-> 12999]
    >>

BasicPattern == {<<"B","a","s","i","c">>}
EnterprisePattern == {<<"B","u","s","i","n","e","s","s">>, <<"P","r","e","m","i","u","m">>, <<"U","l","t","i","m","a","t","e">>,
                      <<"P","r","o">>, <<"G","i","g","a","b","i","t">>}

(***************************************************************************)
(* Dates.  A date is the number of days since 1970-01-01.                  *)
(***************************************************************************)
\* (year, month) of a day number: what strftime('%Y-%m') prints
YearMonth(day) ==
    LET z == day + 719468
        era == z \div 146097
        doe == z - era * 146097
        yoe == (doe - doe \div 1460 + doe \div 36524 - doe \div 146096) \div 365
        doy == doe - (365 * yoe + yoe \div 4 - yoe \div 100)
        mp == (5 * doy + 2) \div 153
        m == IF mp < 10 THEN mp + 3 ELSE mp - 9
        y == yoe + era * 400 + (IF m <= 2 THEN 1 ELSE 0)
    IN  [year |-> y, month |-> m]

\* Faker's date_between(start_date, end_date) on generator state s
DateBetween(s, start, end) ==
    IF end <= start THEN start ELSE start + (s % (end - start + 1))

\* Faker parses '-5y' as today minus 5 * 365 days
FiveYears == 1825

(***************************************************************************)
(* generate_customer_demographics                                          *)
(***************************************************************************)
Segments == <<"Individual", "Small Business", "Enterprise">>
Statuses == <<"Active", "Suspended", "Cancelled">>

\* a variant that numbers the customers from 0: f"CUST_{i:06d}"
CustomerRowFromZero(i, r, f, today) ==
    LET f10 == Skip(f, 10)
        r2 == Skip(r, 2)
        r3 == Advance(r2)
    IN  [customer_id |-> CustomerIdText(i),
         account_creation_date |-> DateBetween(f10, today - FiveYears, today),
         customer_segment |-> Segments[RandInt(r2, 1, 3)],
         account_status |-> Statuses[Choices(r3, <<85, 10, 5>>)]]

\* the customer built by iteration i (0-based) on generator states r and f
CustomerRow(i, r, f, today) ==
    LET f10 == Skip(f, 10)   \* first_name .. zip_code, then the creation date
        r2 == Skip(r, 2)     \* gender, then the segment
        r3 == Advance(r2)    \* account_status
    IN  [customer_id |-> CustomerIdText(i + 1),
         account_creation_date |-> DateBetween(f10, today - FiveYears, today),
         customer_segment |-> Segments[RandInt(r2, 1, 3)],
         account_status |-> Statuses[Choices(r3, <<85, 10, 5>>)]]

\* the random and Faker draws of one customer
CustomerRandomDraws == 6
CustomerFakerDraws == 10

(***************************************************************************)
(* generate_customer_services                                              *)
(***************************************************************************)
RECURSIVE ShuffleFrom(_, _, _)
\* numpy's shuffle: for i from the last position down to the second, swap
\* position i with a position drawn in 1..i
ShuffleFrom(x, i, s) ==
    IF i <= 1 THEN [seq |-> x, state |-> s]
    ELSE LET s1 == Advance(s)
             j == RandInt(s1, 1, i)
             y == [x EXCEPT ![i] = x[j], ![j] = x[i]]
         IN  ShuffleFrom(y, i - 1, s1)

\* a variant that draws each of the n rows anew: sample(n, replace=True)
SampleWithReplacement(rows, n, s) ==
    [rows |-> [k \in 1..n |-> rows[RandInt(Skip(s, k), 1, Len(rows))]],
     state |-> Skip(s, n)]

\* DataFrame.sample(n): the first n rows of a permutation of the frame
Sample(rows, n, s) ==
    LET sh == ShuffleFrom(rows, Len(rows), s)
    IN  [rows |-> SubSeq(sh.seq, 1, n), state |-> sh.state]

\* a variant whose Small Business filter lacks the negation
AvailablePlansBasicOnly(segment, catalog) ==
    IF segment = "Enterprise"
    THEN SelectSeq(catalog, LAMBDA p : ContainsAny(p.plan_name, EnterprisePattern))
    ELSE IF segment = "Small Business"
    THEN SelectSeq(catalog, LAMBDA p : ContainsAny(p.plan_name, BasicPattern))
    ELSE catalog

\* the candidate pool of a customer segment
AvailablePlans(segment, catalog) ==
    IF segment = "Enterprise"
    THEN SelectSeq(catalog, LAMBDA p : ContainsAny(p.plan_name, EnterprisePattern))
    ELSE IF segment = "Small Business"
    THEN SelectSeq(catalog, LAMBDA p : ~ContainsAny(p.plan_name, BasicPattern))
    ELSE catalog

\* a variant that keeps the whole dollars of the fee: int(plan['monthly_fee'])
ServiceRowWholeFee(customer, plan, k, r, f, today) ==
    LET f1 == Advance(f)
        r1 == Advance(r)
    IN  [customer_id |-> customer.customer_id,
         service_id |-> ServiceIdText(k),
         plan_id |-> plan.plan_id,
         plan_name |-> plan.plan_name,
         service_type |-> plan.service_type,
         monthly_fee |-> (plan.monthly_fee \div 100) * 100,
         service_start_date |->
             DateBetween(f1, customer.account_creation_date, today),
         service_status |-> Statuses[Choices(r1, <<85, 8, 7>>)]]

\* a variant whose start date is drawn like the account creation date
ServiceRowStartFromFiveYears(customer, plan, k, r, f, today) ==
    LET f1 == Advance(f)
        r1 == Advance(r)
    IN  [customer_id |-> customer.customer_id,
         service_id |-> ServiceIdText(k),
         plan_id |-> plan.plan_id,
         plan_name |-> plan.plan_name,
         service_type |-> plan.service_type,
         monthly_fee |-> plan.monthly_fee,
         service_start_date |-> DateBetween(f1, today - FiveYears, today),
         service_status |-> Statuses[Choices(r1, <<85, 8, 7>>)]]

\* the subscription of customer to plan, the k-th row of the table
ServiceRow(customer, plan, k, r, f, today) ==
    LET f1 == Advance(f)     \* service_start
        r1 == Advance(r)     \* service_status
    IN  [customer_id |-> customer.customer_id,
         service_id |-> ServiceIdText(k),
         plan_id |-> plan.plan_id,
         plan_name |-> plan.plan_name,
         service_type |-> plan.service_type,
         monthly_fee |-> plan.monthly_fee,
         service_start_date |->
             DateBetween(f1, customer.account_creation_date, today),
         service_status |-> Statuses[Choices(r1, <<85, 8, 7>>)]]

\* the random draws of one subscription: status, auto_pay, contract_length,
\* random() < 0.3 and, when it is, uniform(0, 200)
AfterServiceRow(r) ==
    LET r4 == Skip(r, 4)
    IN  IF RandomBelow(r4, 3, 10) THEN Advance(r4) ELSE r4

RECURSIVE PlanLoopPerCustomer(_, _, _, _, _, _, _)
\* a variant that numbers the subscriptions of each customer from 1
PlanLoopPerCustomer(customer, selected, j, r, f, today, acc) ==
    IF j > Len(selected) THEN [rows |-> acc, rnd |-> r, fk |-> f]
    ELSE PlanLoopPerCustomer(customer, selected, j + 1, AfterServiceRow(r),
                             Advance(f), today,
                             Append(acc, ServiceRow(customer, selected[j], j,
                                                    r, f, today)))

RECURSIVE PlanLoop(_, _, _, _, _, _, _)
PlanLoop(customer, selected, j, r, f, today, acc) ==
    IF j > Len(selected) THEN [rows |-> acc, rnd |-> r, fk |-> f]
    ELSE PlanLoop(customer, selected, j + 1, AfterServiceRow(r), Advance(f), today,
                  Append(acc, ServiceRow(customer, selected[j], Len(acc) + 1,
                                         r, f, today)))

\* a variant whose number of services is one of [0, 1, 2, 3]
CustomerServicesFromZero(customer, catalog, r, n, f, today, acc) ==
    LET r1 == Advance(r)
        num_services == Choices(r1, <<30, 40, 20, 10>>) - 1
        available == AvailablePlans(customer.customer_segment, catalog)
        picked == Sample(available, Min(num_services, Len(available)), n)
        done == PlanLoop(customer, picked.rows, 1, r1, f, today, acc)
    IN  [rows |-> done.rows, rnd |-> done.rnd, nprnd |-> picked.state,
         fk |-> done.fk]

\* one iteration of the loop over customers: the services list with the
\* customer's subscriptions appended, and the generator states it leaves
CustomerServices(customer, catalog, r, n, f, today, acc) ==
    LET r1 == Advance(r)
        num_services == Choices(r1, <<30, 40, 20, 10>>)
        available == AvailablePlans(customer.customer_segment, catalog)
        picked == Sample(available, Min(num_services, Len(available)), n)
        done == PlanLoop(customer, picked.rows, 1, r1, f, today, acc)
    IN  [rows |-> done.rows, rnd |-> done.rnd, nprnd |-> picked.state,
         fk |-> done.fk]

(***************************************************************************)
(* generate_usage_data                                                     *)
(***************************************************************************)
\* range(12): the months generated for a subscription
NumMonths == 12
\* timedelta(days=30 * month_offset)
DaysPerMonth == 30

\* datetime.now() - timedelta(days=30 * month_offset), the clock reading t
OffsetDate(day, t, month_offset) ==
    [day |-> day - DaysPerMonth * month_offset, tick |-> t]

UsageRow(service, month_offset, day, t) ==
    [customer_id |-> service.customer_id,
     service_id |-> service.service_id,
     usage_month |-> YearMonth(OffsetDate(day, t, month_offset).day)]

\* the numpy draws of one usage row: three for Mobile and Internet, two for TV
UsageNumpyDraws(service_type) == IF service_type = "TV" THEN 2 ELSE 3
\* the random draws of one usage row: ppv_purchases for TV
UsageRandomDraws(service_type) == IF service_type = "TV" THEN 1 ELSE 0

\* a variant that skips the Cancelled subscriptions only
HasUsageUnlessCancelled(service) == service.service_status # "Cancelled"

\* whether usage is generated for a subscription
HasUsage(service) == service.service_status = "Active"

\* the twelve rows of one subscription, the clock reading t at the first
ServiceUsage(service, day, t, step) ==
    [m \in 1..NumMonths |-> UsageRow(service, m - 1, day, t + (m - 1) * step)]

(***************************************************************************)
(* generate_billing_data                                                   *)
(***************************************************************************)
PaymentStatuses == <<"Paid", "Late", "Unpaid">>
\* due_date = bill_date + timedelta(days=15)
DueDays == 15
\* late_fee, in cents
LateFee == 2500

\* total_amount in 1/100 cent: base + 8% taxes + uniform(2, 8) fees, plus
\* uniform(10, 50) when random() < 0.15; r is the state before the row
\* a variant whose total leaves the base amount out
TotalAmountWithoutBase(monthly_fee, r) ==
    LET r1 == Advance(r)
        r2 == Advance(r1)
        taxes == monthly_fee * 8
        fees == Uniform(r1, 20000, 80000)
    IN  IF RandomBelow(r2, 15, 100)
        THEN taxes + fees + Uniform(Advance(r2), 100000, 500000)
        ELSE taxes + fees

TotalAmount(monthly_fee, r) ==
    LET r1 == Advance(r)
        r2 == Advance(r1)
        base == monthly_fee * 100
        taxes == monthly_fee * 8
        fees == Uniform(r1, 20000, 80000)
    IN  IF RandomBelow(r2, 15, 100)
        THEN base + taxes + fees + Uniform(Advance(r2), 100000, 500000)
        ELSE base + taxes + fees

\* the generator state after total_amount is computed
AfterTotalAmount(r) ==
    LET r2 == Skip(r, 2)
    IN  IF RandomBelow(r2, 15, 100) THEN Advance(r2) ELSE r2

\* a variant whose Late branch repeats the draw of the Paid branch
PaymentDateLateAsPaid(status, due, s) ==
    IF status = "Paid"
    THEN Some([due EXCEPT !.day = due.day + RandInt(s, 0 - 5, 5)])
    ELSE IF status = "Late"
    THEN Some([due EXCEPT !.day = due.day + RandInt(s, 0 - 5, 5)])
    ELSE None

\* payment_date for a status, drawn on state s
PaymentDate(status, due, s) ==
    IF status = "Paid"
    THEN Some([due EXCEPT !.day = due.day + RandInt(s, 0 - 5, 5)])
    ELSE IF status = "Late"
    THEN Some([due EXCEPT !.day = due.day + RandInt(s, 1, 15)])
    ELSE None

\* round(total_amount, 2), in cents
RoundCents(amount) == RoundHalfEven(amount, 100)

\* a variant that counts the late fee into what a Late bill paid
AmountPaidWithLateFee(payment_status, total_amount) ==
    IF payment_status = "Late" THEN RoundCents(total_amount) + LateFee
    ELSE IF payment_status = "Paid" THEN RoundCents(total_amount) ELSE 0

\* 'amount_paid': the whole amount for a Paid or Late bill, else 0
AmountPaid(payment_status, total_amount) ==
    IF payment_status \in {"Paid", "Late"} THEN RoundCents(total_amount) ELSE 0

\* a variant that charges the late fee on every bill not Paid
LateFeeUnlessPaid(payment_status) ==
    IF payment_status # "Paid" THEN LateFee ELSE 0

\* 'late_fee': 25.0 on a Late bill, else 0
LateFeeOf(payment_status) ==
    IF payment_status = "Late" THEN LateFee ELSE 0

BillingRow(service, month_offset, day, t, r) ==
    LET bill_date == OffsetDate(day, t, month_offset)
        due_date == [bill_date EXCEPT !.day = bill_date.day + DueDays]
        total_amount == TotalAmount(service.monthly_fee, r)
        r3 == Advance(AfterTotalAmount(r))
        payment_status == PaymentStatuses[Choices(r3, <<85, 10, 5>>)]
    IN  [customer_id |-> service.customer_id,
         service_id |-> service.service_id,
         bill_date |-> bill_date,
         due_date |-> due_date,
         amount_due |-> RoundCents(total_amount),
         amount_paid |-> AmountPaid(payment_status, total_amount),
         payment_date |-> PaymentDate(payment_status, due_date, Advance(r3)),
         payment_status |-> payment_status,
         late_fee |-> LateFeeOf(payment_status)]

\* the generator state after one billing row: the status, the payment day
\* unless Unpaid, and the payment method
AfterBillingRow(r) ==
    LET r3 == Advance(AfterTotalAmount(r))
        payment_status == PaymentStatuses[Choices(r3, <<85, 10, 5>>)]
    IN  IF payment_status = "Unpaid" THEN Advance(r3) ELSE Skip(r3, 2)

\* the same, as a function of the state the row starts on
BillingStep == [r \in 1..RngModulus - 1 |-> AfterBillingRow(r)]

RECURSIVE AfterBillingRows(_, _)
\* the generator state after k billing rows
AfterBillingRows(r, k) ==
    IF k = 0 THEN r ELSE BillingStep[AfterBillingRows(r, k - 1)]

\* a variant whose months are range(1, 12)
ServiceBillingFromOne(service, r, day, t, step) ==
    [m \in 1..NumMonths - 1 |->
        BillingRow(service, m, day, t + (m - 1) * step,
                   AfterBillingRows(r, m - 1))]

\* the twelve rows of one subscription, the clock reading t at the first
ServiceBilling(service, r, day, t, step) ==
    [m \in 1..NumMonths |->
        BillingRow(service, m - 1, day, t + (m - 1) * step,
                   AfterBillingRows(r, m - 1))]

(***************************************************************************)
(* generate_support_tickets and generate_nps_surveys                       *)
(***************************************************************************)
\* DataFrame.sample(frac=num/10): round(frac * len) rows, Python's round
\* a variant that truncates frac * len
SampleSizeTruncated(num, len) == (num * len) \div 10

SampleSize(num, len) == RoundHalfEven(num * len, 10)

IssueTypes ==
    <<"Billing", "Technical Support", "Service Change", "Complaint", "Sales Inquiry">>

\* resolution_hours[issue_type], in 1/100 hour: the dict draws all five
\* uniforms, in the order of IssueTypes, after the issue type's own draw
ResolutionHours(issue, r2) ==
    IF issue = 1 THEN Uniform(Skip(r2, 1), 100, 2400)
    ELSE IF issue = 2 THEN Uniform(Skip(r2, 2), 200, 7200)
    ELSE IF issue = 3 THEN Uniform(Skip(r2, 3), 50, 800)
    ELSE IF issue = 4 THEN Uniform(Skip(r2, 4), 400, 4800)
    ELSE Uniform(Skip(r2, 5), 50, 400)

\* the k-th ticket of the table, for customer, on states r and f
TicketRow(customer, k, r, f, today) ==
    LET f1 == Advance(f)     \* ticket_date
        r1 == Advance(r)     \* issue_type
        issue == RandInt(r1, 1, 5)
        r8 == Skip(r1, 7)    \* five uniforms, then priority and status
        r9 == Advance(r8)    \* satisfaction_rating
    IN  [customer_id |-> customer.customer_id,
         ticket_id |-> k,
         creation_date |->
             DateBetween(f1, customer.account_creation_date, today),
         issue_type |-> IssueTypes[issue],
         resolution_time_hours |-> ResolutionHours(issue, r1),
         satisfaction_rating |-> Choices(r9, <<5, 10, 20, 35, 30>>)]

\* random draws of one ticket: issue type, five uniforms, priority, status,
\* satisfaction, channel, agent
TicketRandomDraws == 11

RECURSIVE TicketLoop(_, _, _, _, _, _)
TicketLoop(customer, left, r, f, today, acc) ==
    IF left = 0 THEN [rows |-> acc, rnd |-> r, fk |-> f]
    ELSE TicketLoop(customer, left - 1, Skip(r, TicketRandomDraws), Advance(f),
                    today,
                    Append(acc, TicketRow(customer, Len(acc) + 1, r, f, today)))

\* one iteration of the loop over the sampled customers
CustomerTickets(customer, r, f, today, acc) ==
    LET r1 == Advance(r)
        num_tickets == Choices(r1, <<50, 30, 15, 4, 1>>)
    IN  TicketLoop(customer, num_tickets, r1, f, today, acc)

\* category of an NPS score
\* a variant whose Promoter test is nps_score > 9
CategoryAboveNine(nps_score) ==
    IF nps_score > 9 THEN "Promoter"
    ELSE IF nps_score >= 7 THEN "Passive" ELSE "Detractor"

Category(nps_score) ==
    IF nps_score >= 9 THEN "Promoter"
    ELSE IF nps_score >= 7 THEN "Passive" ELSE "Detractor"

NpsWeights == <<3, 2, 3, 4, 5, 8, 12, 15, 18, 20, 10>>

\* a variant that dates the survey in the five years before today, whenever
\* the account was created
SurveyRowDatedFromFiveYears(customer, k, r, f, today) ==
    LET f1 == Advance(f)
        r1 == Advance(r)
        nps_score == Choices(r1, NpsWeights) - 1
    IN  [customer_id |-> customer.customer_id,
         survey_id |-> k,
         survey_date |-> DateBetween(f1, today - FiveYears, today),
         nps_score |-> nps_score,
         category |-> Category(nps_score)]

SurveyRow(customer, k, r, f, today) ==
    LET f1 == Advance(f)     \* survey_date
        r1 == Advance(r)     \* nps_score
        nps_score == Choices(r1, NpsWeights) - 1
    IN  [customer_id |-> customer.customer_id,
         survey_id |-> k,
         survey_date |->
             DateBetween(f1, customer.account_creation_date, today),
         nps_score |-> nps_score,
         category |-> Category(nps_score)]

\* after one survey: the score, random() < 0.6 and, when it is, the number
\* of words; Faker then draws the sentence
AfterSurveyRandom(r) ==
    LET r2 == Skip(r, 2)
    IN  IF RandomBelow(r2, 6, 10) THEN Advance(r2) ELSE r2
AfterSurveyFaker(r, f) ==
    IF RandomBelow(Skip(r, 2), 6, 10) THEN Skip(f, 2) ELSE Advance(f)

RECURSIVE SurveyLoop(_, _, _, _, _, _)
SurveyLoop(customer, left, r, f, today, acc) ==
    IF left = 0 THEN [rows |-> acc, rnd |-> r, fk |-> f]
    ELSE SurveyLoop(customer, left - 1, AfterSurveyRandom(r),
                    AfterSurveyFaker(r, f), today,
                    Append(acc, SurveyRow(customer, Len(acc) + 1, r, f, today)))

\* one iteration of the loop over the surveyed customers
CustomerSurveys(customer, r, f, today, acc) ==
    LET r1 == Advance(r)
        num_surveys == Choices(r1, <<60, 30, 10>>)
    IN  SurveyLoop(customer, num_surveys, r1, f, today, acc)

(***************************************************************************)
(* calculate_customer_metrics                                              *)
(***************************************************************************)
\* df[df['customer_id'] == customer_id]
RowsOf(table, customer_id) ==
    SelectSeq(table, LAMBDA row : row.customer_id = customer_id)

\* a mean is kept as the fraction num/den; den = 0 is NaN
MeanOf(values) == [num |-> SumSeq(values), den |-> Len(values)]
IsNaN(x) == x.den = 0
\* x < k and x >= k for a mean x and an integer k; both are false of NaN
MeanLess(x, k) == ~IsNaN(x) /\ x.num < k * x.den
MeanAtLeast(x, k) == ~IsNaN(x) /\ x.num >= k * x.den
\* round(x, digits) of a mean, in units of 1/scale of the unit of x
RoundMean(x, scale) == RoundHalfEven(x.num * scale, x.den)

Column(rows, name) == [i \in 1..Len(rows) |-> rows[i][name]]

\* customer_billing.groupby('bill_date')['amount_due'].sum().mean()
MonthlyRevenue(customer_billing) ==
    [num |-> SumSeq(Column(customer_billing, "amount_due")),
     den |-> Cardinality({customer_billing[i].bill_date :
                            i \in 1..Len(customer_billing)})]

RECURSIVE IdxMaxLastFrom(_, _, _)
\* a variant that answers the last position holding the greatest value
IdxMaxLastFrom(values, i, best) ==
    IF i > Len(values) THEN best
    ELSE IF values[i] >= values[best] THEN IdxMaxLastFrom(values, i + 1, i)
    ELSE IdxMaxLastFrom(values, i + 1, best)
IdxMaxLast(values) == IdxMaxLastFrom(values, 2, 1)

RECURSIVE IdxMaxFrom(_, _, _)
\* Series.idxmax: the first position holding the greatest value
IdxMaxFrom(values, i, best) ==
    IF i > Len(values) THEN best
    ELSE IF values[i] > values[best] THEN IdxMaxFrom(values, i + 1, i)
    ELSE IdxMaxFrom(values, i + 1, best)
IdxMax(values) == IdxMaxFrom(values, 2, 1)

LatestNps(customer_nps) ==
    IF Len(customer_nps) > 0
    THEN Some(customer_nps[IdxMax(Column(customer_nps, "survey_date"))].nps_score)
    ELSE None

\* Python's truth value of latest_nps: None and 0 are false
Truthy(x) == x # None /\ ValueOf(x) # 0

\* a variant that sums what was billed instead of what was paid
TotalRevenueDue(customer_billing) == SumSeq(Column(customer_billing, "amount_due"))

\* customer_billing['amount_paid'].sum(): 0 over no rows
TotalRevenue(customer_billing) == SumSeq(Column(customer_billing, "amount_paid"))

\* payment_status.str.contains('Late|Unpaid')
LateOrUnpaid(payment_status) == payment_status \in {"Late", "Unpaid"}

\* a variant whose satisfaction flag is risk_factors -= 25
ChurnRiskSubtracting(customer_tickets, avg_satisfaction, latest_nps, customer_billing) ==
    LET f1 == IF Len(customer_tickets) > 3 THEN 20 ELSE 0
        f2 == IF MeanLess(avg_satisfaction, 3) THEN 25 ELSE 0
        f3 == IF Truthy(latest_nps) /\ ValueOf(latest_nps) <= 6 THEN 30 ELSE 0
        f4 == IF Len(SelectSeq(customer_billing,
                               LAMBDA b : LateOrUnpaid(b.payment_status))) > 2
              THEN 25 ELSE 0
    IN  Min(100, f1 - f2 + f3 + f4)

ChurnRisk(customer_tickets, avg_satisfaction, latest_nps, customer_billing) ==
    LET f1 == IF Len(customer_tickets) > 3 THEN 20 ELSE 0
        f2 == IF MeanLess(avg_satisfaction, 3) THEN 25 ELSE 0
        f3 == IF Truthy(latest_nps) /\ ValueOf(latest_nps) <= 6 THEN 30 ELSE 0
        f4 == IF Len(SelectSeq(customer_billing,
                               LAMBDA b : LateOrUnpaid(b.payment_status))) > 2
              THEN 25 ELSE 0
    IN  Min(100, f1 + f2 + f3 + f4)

UpsellScore(active_services, monthly_revenue, avg_satisfaction, latest_nps) ==
    LET f1 == IF Len(active_services) < 3 THEN 30 ELSE 0
        f2 == IF MeanLess(monthly_revenue, 10000) THEN 20 ELSE 0
        f3 == IF MeanAtLeast(avg_satisfaction, 4) THEN 25 ELSE 0
        f4 == IF Truthy(latest_nps) /\ ValueOf(latest_nps) >= 8 THEN 25 ELSE 0
    IN  Min(100, f1 + f2 + f3 + f4)

\* the means over a customer's tickets, with their defaults for no ticket
AvgResolutionTime(customer_tickets) ==
    IF Len(customer_tickets) > 0
    THEN MeanOf(Column(customer_tickets, "resolution_time_hours"))
    ELSE [num |-> 0, den |-> 1]

\* a variant whose default is that of the resolution time
AvgSatisfactionZeroDefault(customer_tickets) ==
    IF Len(customer_tickets) > 0
    THEN MeanOf(Column(customer_tickets, "satisfaction_rating"))
    ELSE [num |-> 0, den |-> 1]

AvgSatisfaction(customer_tickets) ==
    IF Len(customer_tickets) > 0
    THEN MeanOf(Column(customer_tickets, "satisfaction_rating"))
    ELSE [num |-> 5, den |-> 1]

RECURSIVE MaxOf(_)
MaxOf(values) ==
    IF Len(values) = 1 THEN values[1]
    ELSE Max(values[1], MaxOf(Tail(values)))

\* (datetime.now().date() - account_creation_date).days // 30
TenureMonths(today, created) == (today - created) \div 30

CustomerMetric(customer, svcs, bills, tks, nps, today) ==
    LET customer_id == customer.customer_id
        customer_services == RowsOf(svcs, customer_id)
        active_services ==
            SelectSeq(customer_services, LAMBDA s : s.service_status = "Active")
        customer_billing == RowsOf(bills, customer_id)
        monthly_revenue == MonthlyRevenue(customer_billing)
        total_revenue == TotalRevenue(customer_billing)
        customer_tickets == RowsOf(tks, customer_id)
        avg_resolution_time == AvgResolutionTime(customer_tickets)
        avg_satisfaction == AvgSatisfaction(customer_tickets)
        customer_nps == RowsOf(nps, customer_id)
        latest_nps == LatestNps(customer_nps)
    IN  [customer_id |-> customer_id,
         total_services |-> Len(customer_services),
         active_services |-> Len(active_services),
         \* in cents
         monthly_revenue |-> IF ~IsNaN(monthly_revenue)
                             THEN RoundMean(monthly_revenue, 1) ELSE 0,
         total_lifetime_value |-> total_revenue,
         tenure_months |-> TenureMonths(today, customer.account_creation_date),
         support_tickets_count |-> Len(customer_tickets),
         \* in 1/10 hour, from 1/100 hour
         avg_resolution_time_hours |->
             RoundHalfEven(avg_resolution_time.num, avg_resolution_time.den * 10),
         \* in 1/10
         avg_satisfaction_rating |-> RoundMean(avg_satisfaction, 10),
         latest_nps_score |-> latest_nps,
         churn_risk_score |->
             ChurnRisk(customer_tickets, avg_satisfaction, latest_nps,
                       customer_billing),
         upsell_score |->
             UpsellScore(active_services, monthly_revenue, avg_satisfaction,
                         latest_nps),
         last_interaction_date |->
             IF Len(customer_tickets) > 0
             THEN Some(MaxOf(Column(customer_tickets, "creation_date")))
             ELSE None]

\* a frame built from an empty list has no columns: selecting 'customer_id'
\* from it raises KeyError, which the first customer's iteration does
MetricsRaises(custs, svcs, bills, tks, nps) ==
    /\ custs # <<>>
    /\ svcs = <<>> \/ bills = <<>> \/ tks = <<>> \/ nps = <<>>

\* survey_date holds date objects, an object column: idxmax on it raises
\* TypeError in a pandas that disallows argmax on objects and answers the
\* first greatest position in one that allows it; the source pins no pandas,
\* so a call that reaches a surveyed customer may end either way
IdxMaxMayRaise(custs, nps) ==
    \E i \in 1..Len(custs) :
        \E j \in 1..Len(nps) : nps[j].customer_id = custs[i].customer_id

\* a variant that walks the customers from the last to the first
CustomerMetricsReversed(custs, svcs, bills, tks, nps, today) ==
    [i \in 1..Len(custs) |->
        CustomerMetric(custs[Len(custs) + 1 - i], svcs, bills, tks, nps, today)]

\* the metrics table: one row per customer, in the order of the customers
CustomerMetrics(custs, svcs, bills, tks, nps, today) ==
    [i \in 1..Len(custs) |-> CustomerMetric(custs[i], svcs, bills, tks, nps, today)]

(***************************************************************************)
(* generate_all_data, and the runs of the program.  Each stage is a loop;  *)
(* one step is one iteration of the stage's outer loop, or its return.     *)
(***************************************************************************)
EmptyTables ==
    /\ customers = <<>> /\ plans = <<>> /\ services = <<>> /\ usage = <<>>
    /\ billing = <<>> /\ tickets = <<>> /\ surveys = <<>> /\ metrics = <<>>

\* the module is imported (the generators are seeded) and the generator is
\* constructed with a customer count
Init ==
    /\ numCustomers \in CustomerCounts
    /\ seed \in Seeds
    /\ rnd = RandomSeed(seed)
    /\ nprnd = NumpySeed(seed)
    /\ fk = RandomSeed(seed)
    /\ \E d \in RunDays : now = [day |-> d, tick |-> 0]
    /\ clockStep \in {0, 1}
    /\ pc = "customers"
    /\ idx = 0
    /\ chosen = <<>>
    /\ EmptyTables
    /\ result = NoResult
    /\ prev = NoResult
    /\ run = 1

\* the stage returns its frame and generate_all_data goes on to stage next
Return(next) == pc' = next /\ idx' = 0

GenerateCustomerDemographics ==
    /\ pc = "customers"
    /\ IF idx < numCustomers
       THEN /\ customers' = Append(customers, CustomerRow(idx, rnd, fk, now.day))
            /\ rnd' = Skip(rnd, CustomerRandomDraws)
            /\ fk' = Skip(fk, CustomerFakerDraws)
            /\ idx' = idx + 1
            /\ pc' = pc
       ELSE /\ Return("plans")
            /\ UNCHANGED <<customers, rnd, fk>>
    /\ UNCHANGED <<numCustomers, seed, nprnd, now, clockStep, chosen, plans,
                   services, usage, billing, tickets, surveys, metrics, result,
                   prev, run>>

GenerateServicePlans ==
    /\ pc = "plans"
    /\ plans' = PlanCatalog
    /\ Return("services")
    /\ UNCHANGED <<numCustomers, seed, rnd, nprnd, fk, now, clockStep, chosen,
                   customers, services, usage, billing, tickets, surveys,
                   metrics, result, prev, run>>

GenerateCustomerServices ==
    /\ pc = "services"
    /\ IF idx < Len(customers)
       THEN LET out == CustomerServices(customers[idx + 1], plans, rnd, nprnd, fk,
                                        now.day, services)
            IN  /\ services' = out.rows
                /\ rnd' = out.rnd
                /\ nprnd' = out.nprnd
                /\ fk' = out.fk
                /\ idx' = idx + 1
                /\ pc' = pc
       ELSE /\ Return("usage")
            /\ UNCHANGED <<services, rnd, nprnd, fk>>
    /\ UNCHANGED <<numCustomers, seed, now, clockStep, chosen, customers, plans,
                   usage, billing, tickets, surveys, metrics, result, prev, run>>

GenerateUsageData ==
    /\ pc = "usage"
    /\ IF idx < Len(services)
       THEN LET service == services[idx + 1]
            IN  /\ IF HasUsage(service)
                   THEN /\ usage' = usage \o ServiceUsage(service, now.day, now.tick,
                                                          clockStep)
                        /\ rnd' = Skip(rnd, NumMonths
                                            * UsageRandomDraws(service.service_type))
                        /\ nprnd' = Skip(nprnd, NumMonths
                                            * UsageNumpyDraws(service.service_type))
                        /\ now' = [now EXCEPT !.tick = @ + NumMonths * clockStep]
                   ELSE UNCHANGED <<usage, rnd, nprnd, now>>
                /\ idx' = idx + 1
                /\ pc' = pc
       ELSE /\ Return("billing")
            /\ UNCHANGED <<usage, rnd, nprnd, now>>
    /\ UNCHANGED <<numCustomers, seed, fk, clockStep, chosen, customers, plans,
                   services, billing, tickets, surveys, metrics, result, prev, run>>

GenerateBillingData ==
    /\ pc = "billing"
    /\ IF idx < Len(services)
       THEN /\ billing' = billing \o ServiceBilling(services[idx + 1], rnd, now.day,
                                                    now.tick, clockStep)
            /\ rnd' = AfterBillingRows(rnd, NumMonths)
            /\ now' = [now EXCEPT !.tick = @ + NumMonths * clockStep]
            /\ idx' = idx + 1
            /\ pc' = pc
       ELSE /\ Return("sample_tickets")
            /\ UNCHANGED <<billing, rnd, now>>
    /\ UNCHANGED <<numCustomers, seed, nprnd, fk, clockStep, chosen, customers,
                   plans, services, usage, tickets, surveys, metrics, result,
                   prev, run>>

\* customers_with_tickets = customers_df.sample(frac=0.4)
SampleCustomersWithTickets ==
    /\ pc = "sample_tickets"
    /\ LET picked == Sample(customers, SampleSize(4, Len(customers)), nprnd)
       IN  /\ chosen' = picked.rows
           /\ nprnd' = picked.state
    /\ Return("tickets")
    /\ UNCHANGED <<numCustomers, seed, rnd, fk, now, clockStep, customers, plans,
                   services, usage, billing, tickets, surveys, metrics, result,
                   prev, run>>

GenerateSupportTickets ==
    /\ pc = "tickets"
    /\ IF idx < Len(chosen)
       THEN LET out == CustomerTickets(chosen[idx + 1], rnd, fk, now.day, tickets)
            IN  /\ tickets' = out.rows
                /\ rnd' = out.rnd
                /\ fk' = out.fk
                /\ idx' = idx + 1
                /\ pc' = pc
       ELSE /\ Return("sample_surveys")
            /\ UNCHANGED <<tickets, rnd, fk>>
    /\ UNCHANGED <<numCustomers, seed, nprnd, now, clockStep, chosen, customers,
                   plans, services, usage, billing, surveys, metrics, result,
                   prev, run>>

\* surveyed_customers = customers_df.sample(frac=0.3)
SampleSurveyedCustomers ==
    /\ pc = "sample_surveys"
    /\ LET picked == Sample(customers, SampleSize(3, Len(customers)), nprnd)
       IN  /\ chosen' = picked.rows
           /\ nprnd' = picked.state
    /\ Return("surveys")
    /\ UNCHANGED <<numCustomers, seed, rnd, fk, now, clockStep, customers, plans,
                   services, usage, billing, tickets, surveys, metrics, result,
                   prev, run>>

GenerateNpsSurveys ==
    /\ pc = "surveys"
    /\ IF idx < Len(chosen)
       THEN LET out == CustomerSurveys(chosen[idx + 1], rnd, fk, now.day, surveys)
            IN  /\ surveys' = out.rows
                /\ rnd' = out.rnd
                /\ fk' = out.fk
                /\ idx' = idx + 1
                /\ pc' = pc
       ELSE /\ Return("metrics")
            /\ UNCHANGED <<surveys, rnd, fk>>
    /\ UNCHANGED <<numCustomers, seed, nprnd, now, clockStep, chosen, customers,
                   plans, services, usage, billing, tickets, metrics, result,
                   prev, run>>

\* the call either raises KeyError out of generate_all_data or returns the
\* metrics table; each customer's row reads the clock once
CalculateCustomerMetrics ==
    /\ pc = "metrics"
    /\ IF MetricsRaises(customers, services, billing, tickets, surveys)
       THEN /\ pc' = "raised"
            /\ UNCHANGED <<metrics, now>>
       ELSE \/ /\ IdxMaxMayRaise(customers, surveys)
               /\ pc' = "raised"
               /\ UNCHANGED <<metrics, now>>
            \/ /\ metrics' = CustomerMetrics(customers, services, billing,
                                              tickets, surveys, now.day)
               /\ now' = [now EXCEPT !.tick = @ + clockStep * Len(customers)]
               /\ pc' = "return"
    /\ UNCHANGED <<numCustomers, seed, rnd, nprnd, fk, clockStep, idx, chosen,
                   customers, plans, services, usage, billing, tickets, surveys,
                   result, prev, run>>

\* a variant whose dictionary leaves the plans out
ReturnedTablesWithoutPlans ==
    [customers |-> customers, services |-> services,
     usage |-> usage, billing |-> billing, support_tickets |-> tickets,
     nps_surveys |-> surveys, customer_metrics |-> metrics]

\* the dictionary generate_all_data returns
ReturnedTables ==
    [customers |-> customers, plans |-> plans, services |-> services,
     usage |-> usage, billing |-> billing, support_tickets |-> tickets,
     nps_surveys |-> surveys, customer_metrics |-> metrics]

GenerateAllDataReturn ==
    /\ pc = "return"
    /\ result' = Some(ReturnedTables)
    /\ pc' = "done"
    /\ UNCHANGED <<numCustomers, seed, rnd, nprnd, fk, now, clockStep, idx, chosen,
                   customers, plans, services, usage, billing, tickets, surveys,
                   metrics, prev, run>>

\* a later reading of the clock: the same day or a later run day
LaterClock(clock) ==
    {[day |-> d, tick |-> clock.tick + 1] : d \in {e \in RunDays : e >= clock.day}}

\* generate_all_data is entered again, its tables local to the new call
StartRun ==
    /\ prev' = result
    /\ result' = NoResult
    /\ customers' = <<>> /\ plans' = <<>> /\ services' = <<>> /\ usage' = <<>>
    /\ billing' = <<>> /\ tickets' = <<>> /\ surveys' = <<>> /\ metrics' = <<>>
    /\ chosen' = <<>>
    /\ idx' = 0
    /\ now' \in LaterClock(now)
    /\ pc' = "customers"
    /\ run' = run + 1

\* generate_all_data is called a second time in the same process: the
\* generators are where the first call left them
CallAgain ==
    /\ pc = "done"
    /\ run = 1
    /\ StartRun
    /\ UNCHANGED <<numCustomers, seed, rnd, nprnd, fk, clockStep>>

\* the program is run a second time, in a new process: the import seeds the
\* generators again
RunAgain ==
    /\ pc = "done"
    /\ run = 1
    /\ StartRun
    /\ rnd' = RandomSeed(seed)
    /\ nprnd' = NumpySeed(seed)
    /\ fk' = RandomSeed(seed)
    /\ UNCHANGED <<numCustomers, seed, clockStep>>

Next ==
    \/ GenerateCustomerDemographics
    \/ GenerateServicePlans
    \/ GenerateCustomerServices
    \/ GenerateUsageData
    \/ GenerateBillingData
    \/ SampleCustomersWithTickets
    \/ GenerateSupportTickets
    \/ SampleSurveyedCustomers
    \/ GenerateNpsSurveys
    \/ CalculateCustomerMetrics
    \/ GenerateAllDataReturn
    \/ CallAgain
    \/ RunAgain

Spec == Init /\ [][Next]_vars

(***************************************************************************)
(* calculate_customer_metrics on enumerated tables.  The tables are those  *)
(* of a run with two customers when calculate_customer_metrics is called:  *)
(* the 40% and 30% samples each hold one customer, every customer has at   *)
(* least one subscription and every subscription twelve bills.  The rows   *)
(* of customer 1 are drawn from bounded sets; customer 2 holds the ticket  *)
(* or the survey when customer 1 has none.                                 *)
(***************************************************************************)
\* satisfaction ratings, of random.choices([1, 2, 3, 4, 5])
RatingChoices == {2, 3, 5}
\* NPS scores, of random.choices(range(11)), and the age of a survey in days
ScoreChoices == {0, 6, 7, 8}
AgeChoices == {5, 50}
\* amount_due of the first bill of the first subscription, in cents
FirstAmountChoices == {9999, 10000}
\* service_status of the subscriptions of customer 1
ServiceConfigs == {<<"Active">>, <<"Cancelled">>, <<"Active", "Active", "Active">>}

TicketInputs == UNION {[1..n -> RatingChoices] : n \in 0..MaxTickets}
SurveyInputs ==
    UNION {[1..n -> [score : ScoreChoices, age : AgeChoices]] : n \in 0..MaxSurveys}
BillInputs ==
    [statuses : [1..VarBills -> {"Paid", "Late", "Unpaid"}],
     first : FirstAmountChoices,
     config : ServiceConfigs]

CoarseTickets == {<<>>, <<5>>, [i \in 1..MaxTickets |-> 2]}
CoarseSurveys == {<<>>, <<[score |-> 6, age |-> 5]>>, <<[score |-> 8, age |-> 5]>>}
CoarseBills ==
    {[statuses |-> [i \in 1..VarBills |-> "Paid"], first |-> 10000,
      config |-> <<"Active">>],
     [statuses |-> [i \in 1..VarBills |-> "Late"], first |-> 9999,
      config |-> <<"Active", "Active", "Active">>]}

\* the day of the run and the age of the accounts, in days
InputDay == 20763
InputAccountAge == 400

InputCustomer(i) ==
    [customer_id |-> CustomerIdText(i),
     account_creation_date |-> InputDay - InputAccountAge,
     customer_segment |-> "Individual",
     account_status |-> "Active"]

\* the plans of the subscriptions of a customer, in the order subscribed:
\* Ultimate Mobile, Basic Mobile, Basic TV; and a bill of each, in cents
InputPlans == <<3, 1, 7>>
InputAmounts == <<10000, 4300, 4800>>

InputService(customer, j, k, status) ==
    LET plan == PlanCatalog[InputPlans[j]]
    IN  [customer_id |-> customer.customer_id,
         service_id |-> ServiceIdText(k),
         plan_id |-> plan.plan_id,
         plan_name |-> plan.plan_name,
         service_type |-> plan.service_type,
         monthly_fee |-> plan.monthly_fee,
         service_start_date |-> customer.account_creation_date,
         service_status |-> status]

\* subscriptions of customer 1 per the configuration, then one of customer 2
InputServices(config) ==
    [j \in 1..Len(config) |-> InputService(InputCustomer(1), j, j, config[j])]
    \o <<InputService(InputCustomer(2), 1, Len(config) + 1, "Active")>>

InputBill(service, month_offset, t, amount, status) ==
    LET bill_date == OffsetDate(InputDay, t, month_offset)
        due_date == [bill_date EXCEPT !.day = bill_date.day + DueDays]
    IN  [customer_id |-> service.customer_id,
         service_id |-> service.service_id,
         bill_date |-> bill_date,
         due_date |-> due_date,
         amount_due |-> amount,
         amount_paid |-> IF status \in {"Paid", "Late"} THEN amount ELSE 0,
         payment_date |-> IF status = "Paid" THEN Some(due_date)
                          ELSE IF status = "Late"
                          THEN Some([due_date EXCEPT !.day = due_date.day + 1])
                          ELSE None,
         payment_status |-> status,
         late_fee |-> IF status = "Late" THEN LateFee ELSE 0]

\* the clock reading at the first bill: the usage rows came before
InputBillingTick(svcs, step) ==
    NumMonths * step * Len(SelectSeq(svcs, LAMBDA s : s.service_status = "Active"))

\* the bills of the k-th subscription of the table; those of the first
\* subscription vary as the input says
InputServiceBilling(svcs, k, bl, step) ==
    [m \in 1..NumMonths |->
        InputBill(svcs[k], m - 1,
                  InputBillingTick(svcs, step) + ((k - 1) * NumMonths + m - 1) * step,
                  IF k = 1 /\ m = 1 THEN bl.first
                  ELSE IF svcs[k].customer_id = CustomerIdText(1)
                  THEN InputAmounts[k] ELSE InputAmounts[2],
                  IF k = 1 /\ m <= VarBills THEN bl.statuses[m] ELSE "Paid")]

RECURSIVE InputBillingFrom(_, _, _, _)
InputBillingFrom(svcs, k, bl, step) ==
    IF k > Len(svcs) THEN <<>>
    ELSE InputServiceBilling(svcs, k, bl, step)
         \o InputBillingFrom(svcs, k + 1, bl, step)
InputBilling(svcs, bl, step) == InputBillingFrom(svcs, 1, bl, step)

RECURSIVE InputUsageFrom(_, _, _, _)
InputUsageFrom(svcs, k, t, step) ==
    IF k > Len(svcs) THEN <<>>
    ELSE IF svcs[k].service_status = "Active"
    THEN ServiceUsage(svcs[k], InputDay, t, step)
         \o InputUsageFrom(svcs, k + 1, t + NumMonths * step, step)
    ELSE InputUsageFrom(svcs, k + 1, t, step)
InputUsage(svcs, step) == InputUsageFrom(svcs, 1, 0, step)

InputTicket(customer, k, rating) ==
    [customer_id |-> customer.customer_id,
     ticket_id |-> k,
     creation_date |-> InputDay - k,
     issue_type |-> "Billing",
     resolution_time_hours |-> 150,
     satisfaction_rating |-> rating]

\* the tickets of customer 1, or one ticket of customer 2
InputTickets(tk) ==
    IF tk = <<>> THEN <<InputTicket(InputCustomer(2), 1, 4)>>
    ELSE [k \in 1..Len(tk) |-> InputTicket(InputCustomer(1), k, tk[k])]

InputSurvey(customer, k, sv) ==
    [customer_id |-> customer.customer_id,
     survey_id |-> k,
     survey_date |-> InputDay - sv.age,
     nps_score |-> sv.score,
     category |-> Category(sv.score)]

\* the surveys of customer 1, or one survey of customer 2
InputSurveys(sv) ==
    IF sv = <<>> THEN <<InputSurvey(InputCustomer(2), 1, [score |-> 9, age |-> 5])>>
    ELSE [k \in 1..Len(sv) |-> InputSurvey(InputCustomer(1), k, sv[k])]

\* the state in which calculate_customer_metrics is called on the tables
MetricsInput(tk, sv, bl, step) ==
    LET svcs == InputServices(bl.config)
    IN  /\ numCustomers = 2
        /\ seed = 0
        /\ rnd = RandomSeed(seed)
        /\ nprnd = NumpySeed(seed)
        /\ fk = RandomSeed(seed)
        /\ clockStep = step
        /\ now = [day |-> InputDay,
                  tick |-> InputBillingTick(svcs, step)
                           + NumMonths * step * Len(svcs)]
        /\ pc = "metrics"
        /\ idx = 0
        /\ chosen = <<InputCustomer(IF sv = <<>> THEN 2 ELSE 1)>>
        /\ customers = <<InputCustomer(1), InputCustomer(2)>>
        /\ plans = PlanCatalog
        /\ services = svcs
        /\ usage = InputUsage(svcs, step)
        /\ billing = InputBilling(svcs, bl, step)
        /\ tickets = InputTickets(tk)
        /\ surveys = InputSurveys(sv)
        /\ metrics = <<>>
        /\ result = NoResult
        /\ prev = NoResult
        /\ run = 1

\* one table varies over its whole bounded set, the others over a few cases;
\* the clock step matters to the bill dates, and varies with the bills
InitMetrics ==
    \E focus \in {"tickets", "surveys", "billing"} :
        \E step \in (IF focus = "billing" THEN {0, 1} ELSE {1}),
           tk \in (IF focus = "tickets" THEN TicketInputs ELSE CoarseTickets),
           sv \in (IF focus = "surveys" THEN SurveyInputs ELSE CoarseSurveys),
           bl \in (IF focus = "billing" THEN BillInputs ELSE CoarseBills) :
            MetricsInput(tk, sv, bl, step)

NextMetrics ==
    \/ CalculateCustomerMetrics
    \/ GenerateAllDataReturn

SpecMetrics == InitMetrics /\ [][NextMetrics]_vars

(***************************************************************************)
(* Properties.                                                             *)
(***************************************************************************)
StageOrder ==
    <<"customers", "plans", "services", "usage", "billing", "sample_tickets",
      "tickets", "sample_surveys", "surveys", "metrics", "return", "done">>
StageNumber(stage) == CHOOSE k \in 1..Len(StageOrder) : StageOrder[k] = stage
\* the stage has returned its table in the current run
Past(stage) ==
    IF pc = "raised" THEN StageNumber(stage) <= StageNumber("metrics")
    ELSE StageNumber(pc) > StageNumber(stage)

B(cond) == IF cond THEN 1 ELSE 0
Count(table, Test(_)) == Cardinality({i \in 1..Len(table) : Test(table[i])})

\* C1: for a fixed seed and customer count, a second run of generate_all_data
\* (a second call in the same process, or a run in a new process at a later
\* time) returns the tables the first run returned.
C1_Deterministic ==
    (pc = "done" /\ prev # NoResult) => result = prev

\* the means and counts the scores are stated over
TicketsOfRow(row) == RowsOf(tickets, row.customer_id)
SatisfactionSum(row) == SumSeq(Column(TicketsOfRow(row), "satisfaction_rating"))
LateOrUnpaidBills(row) ==
    Count(billing, LAMBDA b : b.customer_id = row.customer_id
                              /\ b.payment_status \in {"Late", "Unpaid"})
ActiveServices(row) ==
    Count(services, LAMBDA s : s.customer_id = row.customer_id
                               /\ s.service_status = "Active")

\* C2: churn_risk_score = min(100, 20*[tickets > 3] + 25*[mean satisfaction
\* < 3] + 30*[a latest NPS score exists and is <= 6, 0 included] + 25*[Late
\* or Unpaid bills > 2]) for every customer.
C2_ChurnFormula ==
    Past("metrics") /\ pc # "raised" =>
        \A i \in 1..Len(metrics) :
            LET row == metrics[i]
                n == Len(TicketsOfRow(row))
            IN  row.churn_risk_score =
                    Min(100, 20 * B(n > 3)
                             + 25 * B(n > 0 /\ SatisfactionSum(row) < 3 * n)
                             + 30 * B(row.latest_nps_score # None
                                      /\ ValueOf(row.latest_nps_score) <= 6)
                             + 25 * B(LateOrUnpaidBills(row) > 2))

\* C3: upsell_score = min(100, 30*[active services < 3] + 20*[the row's
\* monthly_revenue < 100] + 25*[mean satisfaction >= 4] + 25*[a latest NPS
\* score exists and is >= 8]) for every customer.
C3_UpsellFormula ==
    Past("metrics") /\ pc # "raised" =>
        \A i \in 1..Len(metrics) :
            LET row == metrics[i]
                n == Len(TicketsOfRow(row))
            IN  row.upsell_score =
                    Min(100, 30 * B(ActiveServices(row) < 3)
                             + 20 * B(row.monthly_revenue < 10000)
                             + 25 * B(n = 0 \/ SatisfactionSum(row) >= 4 * n)
                             + 25 * B(row.latest_nps_score # None
                                      /\ ValueOf(row.latest_nps_score) >= 8))

\* C4: churn_risk_score and upsell_score of every customer lie in [0, 100].
C4_ScoresInRange ==
    \A i \in 1..Len(metrics) :
        /\ metrics[i].churn_risk_score \in 0..100
        /\ metrics[i].upsell_score \in 0..100

\* a customer reaches the top of a score: every flag of it is set
C4_Witness ==
    /\ pc = "done"
    /\ \E i \in 1..Len(metrics) :
           /\ metrics[i].churn_risk_score = 100
           /\ Len(TicketsOfRow(metrics[i])) > 3
           /\ LateOrUnpaidBills(metrics[i]) > 2

\* C5: a customer with no ticket has avg_satisfaction_rating 5 and
\* avg_resolution_time_hours 0, and the flags use these defaults: the
\* satisfaction flag adds nothing to the churn score (which is what the NPS
\* and payment flags give) and adds its 25 to the upsell score.
C5_NoTicketDefaults ==
    \A i \in 1..Len(metrics) :
        LET row == metrics[i]
        IN  Len(TicketsOfRow(row)) = 0 =>
                /\ row.avg_satisfaction_rating = 50
                /\ row.avg_resolution_time_hours = 0
                /\ row.support_tickets_count = 0
                /\ row.churn_risk_score - 25 * B(LateOrUnpaidBills(row) > 2)
                       \in {0, 30}
                /\ row.upsell_score - 25 - 30 * B(ActiveServices(row) < 3)
                       - 25 * B(row.latest_nps_score # None
                                /\ ValueOf(row.latest_nps_score) >= 8)
                       \in {0, 20}

C5_Witness ==
    /\ pc = "done"
    /\ \E i \in 1..Len(metrics) :
           /\ Len(TicketsOfRow(metrics[i])) = 0
           /\ metrics[i].upsell_score = 25
    /\ \E i \in 1..Len(metrics) : Len(TicketsOfRow(metrics[i])) > 0

\* C6: generate_all_data never raises for a customer count of 1 or more.
C6_NeverRaises ==
    numCustomers >= 1 => pc # "raised"

\* C7: a customer count of 0 or less is rejected before any stage runs: no
\* stage returns, no table is produced, no draw is consumed.
C7_RejectsBadCount ==
    numCustomers <= 0 =>
        /\ pc = "customers"
        /\ plans = <<>>
        /\ result = NoResult
        /\ rnd = RandomSeed(seed) /\ nprnd = NumpySeed(seed) /\ fk = RandomSeed(seed)

\* the id CUST_ followed by i on six digits
SixDigitId(i) ==
    <<"CUST_", (i \div 100000) % 10, (i \div 10000) % 10, (i \div 1000) % 10,
      (i \div 100) % 10, (i \div 10) % 10, i % 10>>

\* C8: generate_customer_demographics returns exactly N rows (N a count, 0
\* or more), the i-th with id CUST_ followed by i on six digits, so that the
\* ids are pairwise distinct.
C8_CustomerIds ==
    Past("customers") /\ numCustomers >= 0 =>
        /\ Len(customers) = numCustomers
        /\ \A i \in 1..Len(customers) : customers[i].customer_id = SixDigitId(i)
        /\ \A i, j \in 1..Len(customers) :
               i # j => customers[i].customer_id # customers[j].customer_id

C8_Witness ==
    /\ Past("customers")
    /\ numCustomers >= 2
    /\ Len(customers) = numCustomers

UsageRowsOf(service) == Count(usage, LAMBDA u : u.service_id = service.service_id)
BillingRowsOf(service) == Count(billing, LAMBDA b : b.service_id = service.service_id)

\* C9: generate_usage_data returns exactly 12 usage rows for every Active
\* subscription and none for a Suspended or Cancelled one.
C9_UsageRows ==
    Past("usage") =>
        /\ \A k \in 1..Len(services) :
               UsageRowsOf(services[k]) =
                   IF services[k].service_status = "Active" THEN 12 ELSE 0
        /\ \A i \in 1..Len(usage) :
               \E k \in 1..Len(services) :
                   /\ usage[i].service_id = services[k].service_id
                   /\ usage[i].customer_id = services[k].customer_id

C9_Witness ==
    /\ Past("usage")
    /\ \E k \in 1..Len(services) : services[k].service_status = "Active"
    /\ \E k \in 1..Len(services) : services[k].service_status = "Suspended"
    /\ \E k \in 1..Len(services) : services[k].service_status = "Cancelled"

\* C10: generate_billing_data returns exactly 12 billing rows for every
\* subscription, whatever its status, each with the subscription's
\* customer_id and service_id.
C10_BillingRows ==
    Past("billing") =>
        /\ \A k \in 1..Len(services) : BillingRowsOf(services[k]) = 12
        /\ \A i \in 1..Len(billing) :
               \E k \in 1..Len(services) :
                   /\ billing[i].service_id = services[k].service_id
                   /\ billing[i].customer_id = services[k].customer_id
        /\ Len(billing) = 12 * Len(services)

C10_Witness ==
    /\ Past("billing")
    /\ \E k \in 1..Len(services) :
           services[k].service_status = "Suspended" /\ BillingRowsOf(services[k]) = 12
    /\ \E k \in 1..Len(services) :
           services[k].service_status = "Cancelled" /\ BillingRowsOf(services[k]) = 12
    /\ \E k \in 1..Len(services) :
           services[k].service_status = "Active" /\ BillingRowsOf(services[k]) = 12

\* the calendar month k months before the month ym
MonthBefore(ym, k) ==
    LET n == ym.year * 12 + ym.month - 1 - k
    IN  [year |-> n \div 12, month |-> (n % 12) + 1]

UsageMonthsOf(service) ==
    {usage[i].usage_month :
        i \in {j \in 1..Len(usage) : usage[j].service_id = service.service_id}}

\* C11: the usage rows of an Active subscription cover 12 pairwise distinct
\* calendar months, the month of the run and the 11 months before it,
\* whatever the day of the month of the run.
C11_DistinctMonths ==
    Past("usage") =>
        \A k \in 1..Len(services) :
            services[k].service_status = "Active" =>
                /\ Cardinality(UsageMonthsOf(services[k])) = 12
                /\ UsageMonthsOf(services[k]) =
                       {MonthBefore(YearMonth(now.day), m) : m \in 0..11}

CustomerOf(row) ==
    CHOOSE i \in 1..Len(customers) : customers[i].customer_id = row.customer_id

\* C12: the service_start_date of every subscription is on or after the
\* account_creation_date of its customer, and not after today.
C12_StartDates ==
    \A k \in 1..Len(services) :
        /\ \E i \in 1..Len(customers) :
               customers[i].customer_id = services[k].customer_id
        /\ customers[CustomerOf(services[k])].account_creation_date
               <= services[k].service_start_date
        /\ services[k].service_start_date <= now.day

\* subscriptions that start after the account was created and before today,
\* of an account younger than a year
C12_Witness ==
    /\ Past("services")
    /\ \E k \in 1..Len(services) :
           LET created == customers[CustomerOf(services[k])].account_creation_date
           IN  /\ created > now.day - 365
               /\ created < services[k].service_start_date
               /\ services[k].service_start_date < now.day

\* C13: in every billing row due_date is bill_date + 15 days; Paid has a
\* payment_date within 5 days of due_date, before or after; Late has one 1
\* to 15 days after due_date; Unpaid has none.
C13_PaymentDates ==
    \A i \in 1..Len(billing) :
        LET b == billing[i]
        IN  /\ b.due_date.day = b.bill_date.day + 15
            /\ b.due_date.tick = b.bill_date.tick
            /\ b.payment_status \in {"Paid", "Late", "Unpaid"}
            /\ b.payment_status = "Paid" =>
                   /\ b.payment_date # None
                   /\ ValueOf(b.payment_date).day - b.due_date.day \in (0 - 5)..5
            /\ b.payment_status = "Late" =>
                   /\ b.payment_date # None
                   /\ ValueOf(b.payment_date).day - b.due_date.day \in 1..15
            /\ b.payment_status = "Unpaid" => b.payment_date = None

\* bills of the three statuses, a Paid one paid before it was due
C13_Witness ==
    /\ Past("billing")
    /\ \E i \in 1..Len(billing) :
           /\ billing[i].payment_status = "Paid"
           /\ ValueOf(billing[i].payment_date).day < billing[i].due_date.day
    /\ \E i \in 1..Len(billing) : billing[i].payment_status = "Late"
    /\ \E i \in 1..Len(billing) : billing[i].payment_status = "Unpaid"

\* C14: the category of every survey row is a function of its nps_score, a
\* score in 0..10: Promoter iff the score is 9 or 10, Passive iff it is 7
\* or 8, Detractor iff it is 6 or less.
C14_SurveyCategory ==
    \A i \in 1..Len(surveys) :
        LET s == surveys[i]
        IN  /\ s.nps_score \in 0..10
            /\ s.category \in {"Promoter", "Passive", "Detractor"}
            /\ s.category = "Promoter" <=> s.nps_score >= 9
            /\ s.category = "Passive" <=> s.nps_score \in {7, 8}
            /\ s.category = "Detractor" <=> s.nps_score <= 6

\* a survey table that holds a score of 9 and a score below it
C14_Witness ==
    /\ Past("surveys")
    /\ \E i \in 1..Len(surveys) : surveys[i].nps_score = 9
    /\ \E i \in 1..Len(surveys) : surveys[i].nps_score < 9

ServicesOf(customer) ==
    Count(services, LAMBDA s : s.customer_id = customer.customer_id)
BillsOf(customer) ==
    Count(billing, LAMBDA b : b.customer_id = customer.customer_id)

\* C15: every customer has at least 1 and at most 4 subscriptions, so that
\* the services table of N customers has between N and 4N rows; and every
\* customer has at least 12 billing rows.
C15_ServicesPerCustomer ==
    /\ Past("services") =>
           /\ \A i \in 1..Len(customers) : ServicesOf(customers[i]) \in 1..4
           /\ Len(customers) <= Len(services)
           /\ Len(services) <= 4 * Len(customers)
           /\ numCustomers >= 0 =>
                  numCustomers <= Len(services) /\ Len(services) <= 4 * numCustomers
    /\ Past("billing") =>
           \A i \in 1..Len(customers) : BillsOf(customers[i]) >= 12

\* a customer with one subscription and a customer with four
C15_Witness ==
    /\ Past("billing")
    /\ \E i \in 1..Len(customers) :
           ServicesOf(customers[i]) = 1 /\ BillsOf(customers[i]) = 12
    /\ \E i \in 1..Len(customers) :
           ServicesOf(customers[i]) = 4 /\ BillsOf(customers[i]) = 48

\* C16: the customer_id of every subscription is the id of a generated
\* customer; its plan_id is one of the 10 ids of the catalog, and its
\* plan_name, service_type and monthly_fee are those of that catalog row,
\* the fee above 0.
C16_ReferentialIntegrity ==
    /\ Past("plans") =>
           /\ Len(plans) = 10
           /\ \A p \in 1..Len(plans) : plans[p].plan_id = p
    /\ \A k \in 1..Len(services) :
           LET s == services[k]
           IN  /\ \E i \in 1..Len(customers) :
                      customers[i].customer_id = s.customer_id
               /\ s.plan_id \in 1..10
               /\ s.plan_name = plans[s.plan_id].plan_name
               /\ s.service_type = plans[s.plan_id].service_type
               /\ s.monthly_fee = plans[s.plan_id].monthly_fee
               /\ s.monthly_fee > 0

\* subscriptions of two customers to plans of the three service types
C16_Witness ==
    /\ Past("services")
    /\ \E k, l \in 1..Len(services) :
           services[k].customer_id # services[l].customer_id
    /\ \A t \in {"Mobile", "Internet", "TV"} :
           \E k \in 1..Len(services) : services[k].service_type = t

\* the plan ids of the pool of a segment: the names without 'Basic' and
\* the names with Business, Premium, Ultimate, Pro or Gigabit are the same
PoolIds(segment) ==
    IF segment = "Individual" THEN 1..10 ELSE {2, 3, 5, 6, 8, 9, 10}

\* C17: plans are selected without replacement: the subscriptions a
\* customer is given have pairwise distinct plan_ids, and their number is
\* min(sampled service count, size of the segment's pool), which with the
\* fixed catalog is the sampled count.
C17_WithoutReplacement ==
    [][pc = "services" /\ idx < Len(customers) =>
         LET customer == customers[idx + 1]
             sampled == Choices(Advance(rnd), <<30, 40, 20, 10>>)
             pool == PoolIds(customer.customer_segment)
             new == SubSeq(services', Len(services) + 1, Len(services'))
         IN  /\ SubSeq(services', 1, Len(services)) = services
             /\ Len(new) = Min(sampled, Cardinality(pool))
             /\ Len(new) = sampled
             /\ \A a \in 1..Len(new) :
                    /\ new[a].customer_id = customer.customer_id
                    /\ new[a].plan_id \in pool
             /\ \A a, b \in 1..Len(new) :
                    a # b => new[a].plan_id # new[b].plan_id]_vars

\* a customer that was given four subscriptions
C17_Witness ==
    /\ pc = "services"
    /\ idx > 0
    /\ ServicesOf(customers[idx]) = 4

SegmentOf(row) == customers[CustomerOf(row)].customer_segment

\* C18: a Small Business customer has no plan whose name contains 'Basic';
\* an Enterprise customer has only plans whose name contains Business,
\* Premium, Ultimate, Pro or Gigabit; an Individual customer has plans of
\* the catalog, any of them.
C18_SegmentPools ==
    \A k \in 1..Len(services) :
        LET s == services[k]
        IN  /\ SegmentOf(s) = "Small Business" =>
                   ~Contains(s.plan_name, <<"B", "a", "s", "i", "c">>)
            /\ SegmentOf(s) = "Enterprise" =>
                   \/ Contains(s.plan_name, <<"B", "u", "s", "i", "n", "e", "s", "s">>)
                   \/ Contains(s.plan_name, <<"P", "r", "e", "m", "i", "u", "m">>)
                   \/ Contains(s.plan_name, <<"U", "l", "t", "i", "m", "a", "t", "e">>)
                   \/ Contains(s.plan_name, <<"P", "r", "o">>)
                   \/ Contains(s.plan_name, <<"G", "i", "g", "a", "b", "i", "t">>)
            /\ s.plan_id \in PoolIds(SegmentOf(s))

\* customers of the three segments, the Individual one on a Basic plan
C18_Witness ==
    /\ Past("services")
    /\ \E k \in 1..Len(services) :
           SegmentOf(services[k]) = "Individual" /\ services[k].plan_id \in {1, 4, 7}
    /\ \E k \in 1..Len(services) : SegmentOf(services[k]) = "Small Business"
    /\ \E k \in 1..Len(services) : SegmentOf(services[k]) = "Enterprise"

\* the id SVC_ followed by k on eight digits
EightDigitId(k) ==
    <<"SVC_", (k \div 10000000) % 10, (k \div 1000000) % 10,
      (k \div 100000) % 10, (k \div 10000) % 10, (k \div 1000) % 10,
      (k \div 100) % 10, (k \div 10) % 10, k % 10>>

\* C19: subscription ids come from one counter for the whole run: the k-th
\* row has id SVC_ followed by k on eight digits, so that the ids are
\* pairwise distinct without gaps, and the rows of an earlier customer come
\* before, and have smaller ids than, those of a later customer.
C19_ServiceIds ==
    /\ \A k \in 1..Len(services) : services[k].service_id = EightDigitId(k)
    /\ \A k, l \in 1..Len(services) :
           /\ k # l => services[k].service_id # services[l].service_id
           /\ k < l => CustomerOf(services[k]) <= CustomerOf(services[l])

\* the second customer's subscriptions are numbered on from the first's
C19_Witness ==
    /\ Past("services")
    /\ \E k \in 2..Len(services) :
           /\ CustomerOf(services[k]) = 2
           /\ CustomerOf(services[k - 1]) = 1
           /\ k >= 3
           /\ services[k].service_id = EightDigitId(k)
    /\ CustomerOf(services[Len(services)]) = Len(customers)

AmountDueOf(row) ==
    SumSeq(Column(RowsOf(billing, row.customer_id), "amount_due"))

\* C20: monthly_revenue of a customer is the mean of the monthly totals of
\* amount_due: with k subscriptions, the mean of 12 totals of k bills each,
\* that is the customer's total amount_due over 12, rounded to the cent
\* (not the mean of the 12 * k bills); it is 0 without billing rows.
C20_MonthlyRevenue ==
    Past("metrics") /\ pc # "raised" =>
        \A i \in 1..Len(metrics) :
            metrics[i].monthly_revenue =
                IF BillsOf(metrics[i]) = 0 THEN 0
                ELSE RoundHalfEven(AmountDueOf(metrics[i]), 12)

RECURSIVE PaidUpTo(_, _)
\* what the customer of a metrics row paid over the first k billing rows
PaidUpTo(row, k) ==
    IF k = 0 THEN 0
    ELSE PaidUpTo(row, k - 1)
         + (IF billing[k].customer_id = row.customer_id
            THEN billing[k].amount_paid ELSE 0)

\* C21: total_lifetime_value of a customer is the sum of amount_paid over
\* exactly the billing rows of that customer, whatever their subscription
\* and payment status.
C21_LifetimeValue ==
    Past("metrics") /\ pc # "raised" =>
        \A i \in 1..Len(metrics) :
            metrics[i].total_lifetime_value = PaidUpTo(metrics[i], Len(billing))

C21_Witness ==
    /\ Past("metrics") /\ pc # "raised"
    /\ Len(metrics) >= 2
    /\ \E i \in 1..Len(metrics) :
          /\ ServicesOf(metrics[i]) >= 2
          /\ \E k \in 1..Len(billing) :
                /\ billing[k].customer_id = metrics[i].customer_id
                /\ billing[k].payment_status = "Unpaid"
          /\ metrics[i].total_lifetime_value > 0

\* the positions of the surveys of the customer of a metrics row
SurveysOfRow(row) ==
    {j \in 1..Len(surveys) : surveys[j].customer_id = row.customer_id}
\* the earliest generated of the customer's surveys of the greatest date
LatestSurvey(row) ==
    CHOOSE j \in SurveysOfRow(row) :
        \A k \in SurveysOfRow(row) :
            \/ surveys[k].survey_date < surveys[j].survey_date
            \/ surveys[k].survey_date = surveys[j].survey_date /\ j <= k

\* C22: latest_nps_score of a customer is the nps_score of the customer's
\* survey of the greatest survey_date, the earliest generated one among the
\* surveys sharing that date, and it is None exactly when the customer has
\* no survey.
C22_LatestNps ==
    Past("metrics") /\ pc # "raised" =>
        \A i \in 1..Len(metrics) :
            IF SurveysOfRow(metrics[i]) = {}
            THEN metrics[i].latest_nps_score = None
            ELSE metrics[i].latest_nps_score
                     = Some(surveys[LatestSurvey(metrics[i])].nps_score)

\* a customer whose two latest surveys share their date and differ in score,
\* next to a customer without a survey
C22_Witness ==
    /\ Past("metrics") /\ pc # "raised"
    /\ \E i \in 1..Len(metrics) :
          \E j, k \in SurveysOfRow(metrics[i]) :
              /\ j < k
              /\ j = LatestSurvey(metrics[i])
              /\ surveys[j].survey_date = surveys[k].survey_date
              /\ surveys[j].nps_score # surveys[k].nps_score
    /\ \E i \in 1..Len(metrics) : SurveysOfRow(metrics[i]) = {}

\* C23: late_fee of a billing row is 25 exactly when its payment_status is
\* Late, and 0 when it is Paid or Unpaid.
C23_LateFee ==
    \A k \in 1..Len(billing) :
        /\ billing[k].payment_status \in {"Paid", "Late", "Unpaid"}
        /\ billing[k].late_fee
               = IF billing[k].payment_status = "Late" THEN 2500 ELSE 0

C23_Witness ==
    \A status \in {"Paid", "Late", "Unpaid"} :
        \E k \in 1..Len(billing) : billing[k].payment_status = status

\* the subscription a billing or usage row belongs to
ServiceOf(row) ==
    CHOOSE k \in 1..Len(services) : services[k].service_id = row.service_id

\* C24: amount_due of a billing row is at least the monthly_fee of its
\* subscription: it is the fee plus 8% of it plus a fee of 2 or more, plus
\* an overage charge now and then (to the cent).
C24_AmountDue ==
    \A k \in 1..Len(billing) :
        LET monthly_fee == services[ServiceOf(billing[k])].monthly_fee
        IN  /\ billing[k].amount_due >= monthly_fee
            /\ 100 * billing[k].amount_due + 50 >= 108 * monthly_fee + 20000

\* a bill with an overage charge and a bill without one
C24_Witness ==
    /\ \E k \in 1..Len(billing) :
          100 * billing[k].amount_due
              <= 108 * services[ServiceOf(billing[k])].monthly_fee + 80050
    /\ \E k \in 1..Len(billing) :
          100 * billing[k].amount_due
              > 108 * services[ServiceOf(billing[k])].monthly_fee + 80050

\* C25: every support ticket and every NPS survey belongs to a generated
\* customer and is dated on or after that customer's account_creation_date
\* and not after today.
C25_TicketAndSurveyDates ==
    /\ \A k \in 1..Len(tickets) :
          /\ \E i \in 1..Len(customers) :
                customers[i].customer_id = tickets[k].customer_id
          /\ customers[CustomerOf(tickets[k])].account_creation_date
                 <= tickets[k].creation_date
          /\ tickets[k].creation_date <= now.day
    /\ \A k \in 1..Len(surveys) :
          /\ \E i \in 1..Len(customers) :
                customers[i].customer_id = surveys[k].customer_id
          /\ customers[CustomerOf(surveys[k])].account_creation_date
                 <= surveys[k].survey_date
          /\ surveys[k].survey_date <= now.day

\* a ticket and a survey strictly inside the lifetime of an account younger
\* than two years
C25_Witness ==
    /\ Past("surveys")
    /\ \E k \in 1..Len(tickets) :
          LET created == customers[CustomerOf(tickets[k])].account_creation_date
          IN  /\ created > now.day - 730
              /\ created < tickets[k].creation_date
              /\ tickets[k].creation_date < now.day
    /\ \E k \in 1..Len(surveys) :
          LET created == customers[CustomerOf(surveys[k])].account_creation_date
          IN  /\ created > now.day - 730
              /\ created < surveys[k].survey_date
              /\ surveys[k].survey_date < now.day

\* the customers that hold a row of a table, and the rows one of them holds
HoldersOf(table) == {table[k].customer_id : k \in 1..Len(table)}
HeldBy(table, id) == Count(table, LAMBDA row : row.customer_id = id)
\* n is tenths * N / 10 rounded to a whole number
RoundedShare(n, tenths, N) ==
    /\ 10 * n - tenths * N <= 5
    /\ tenths * N - 10 * n <= 5

TableNames ==
    {"customers", "plans", "services", "usage", "billing", "support_tickets",
     "nps_surveys", "customer_metrics"}
\* the step moves generate_all_data to the next stage of StageOrder
NextStage ==
    /\ pc \in {StageOrder[k] : k \in 1..Len(StageOrder) - 1}
    /\ pc' = StageOrder[StageNumber(pc) + 1]

\* C27: within one call generate_all_data goes through its stages once each
\* and in the order customers, plans, services, usage, billing, support
\* tickets, NPS surveys, customer metrics; a table changes only in the stage
\* that produces it, so every stage reads tables that are complete and no
\* later stage changes an earlier table; and the dictionary returned holds
\* exactly the eight tables under their names, as the stages left them.
C27_StageOrder ==
    [][/\ pc' # pc =>
             \/ NextStage
             \/ pc = "metrics" /\ pc' = "raised"
             \/ pc = "done" /\ pc' = "customers"
       /\ pc # "done" =>
             /\ customers' # customers => pc = "customers"
             /\ plans' # plans => pc = "plans"
             /\ services' # services => pc = "services"
             /\ usage' # usage => pc = "usage"
             /\ billing' # billing => pc = "billing"
             /\ tickets' # tickets => pc = "tickets"
             /\ surveys' # surveys => pc = "surveys"
             /\ metrics' # metrics => pc = "metrics"
       /\ result' # result /\ pc # "done" =>
             /\ pc = "return"
             /\ DOMAIN ValueOf(result') = TableNames
             /\ ValueOf(result').customers = customers
             /\ ValueOf(result').plans = plans
             /\ ValueOf(result').services = services
             /\ ValueOf(result').usage = usage
             /\ ValueOf(result').billing = billing
             /\ ValueOf(result').support_tickets = tickets
             /\ ValueOf(result').nps_surveys = surveys
             /\ ValueOf(result').customer_metrics = metrics
             /\ UNCHANGED <<customers, plans, services, usage, billing,
                            tickets, surveys, metrics>>]_vars

\* a call has returned eight tables, none of them empty
C27_Witness ==
    /\ pc = "done"
    /\ result # NoResult
    /\ DOMAIN ValueOf(result) = TableNames
    /\ \A name \in TableNames : ValueOf(result)[name] # <<>>

\* C28: calculate_customer_metrics returns exactly one row per customer, in
\* the order of the customers table, whose total_services and
\* active_services are the numbers of the customer's subscriptions and of
\* the Active ones among them; it leaves the customers, services, billing,
\* tickets and surveys tables as they were.
C28_MetricsFrame ==
    [][pc = "metrics" /\ pc' = "return" =>
          /\ UNCHANGED <<customers, plans, services, usage, billing, tickets,
                         surveys>>
          /\ Len(metrics') = Len(customers)
          /\ \A i \in 1..Len(customers) :
                /\ metrics'[i].customer_id = customers[i].customer_id
                /\ metrics'[i].total_services = ServicesOf(customers[i])
                /\ metrics'[i].active_services = ActiveServices(customers[i])]_vars

\* metrics of three customers, one of them with a subscription that is not
\* Active beside an Active one
C28_Witness ==
    /\ pc = "return"
    /\ Len(metrics) = 3
    /\ Len(customers) = 3
    /\ \E i \in 1..Len(metrics) :
          /\ metrics[i].active_services >= 1
          /\ metrics[i].total_services > metrics[i].active_services

\* months since year 0 of a (year, month)
MonthIndex(ym) == 12 * ym.year + ym.month

\* C29: no billing row of a subscription is dated before the subscription's
\* service_start_date, and no usage row of it is for a month before the month
\* of that date.
C29_NothingBeforeStart ==
    /\ \A k \in 1..Len(billing) :
          billing[k].bill_date.day
              >= services[ServiceOf(billing[k])].service_start_date
    /\ \A k \in 1..Len(usage) :
          MonthIndex(usage[k].usage_month)
              >= MonthIndex(YearMonth(
                     services[ServiceOf(usage[k])].service_start_date))

\* C30: amount_paid of a billing row equals its amount_due when the bill is
\* Paid or Late and is 0 when it is Unpaid, the late fee being no part of it;
\* hence the total_lifetime_value of a customer is at most the sum of the
\* customer's amount_due.
C30_AmountPaid ==
    /\ \A k \in 1..Len(billing) :
          billing[k].amount_paid
              = IF billing[k].payment_status = "Unpaid" THEN 0
                ELSE billing[k].amount_due
    /\ Past("metrics") /\ pc # "raised" =>
          \A i \in 1..Len(metrics) :
              metrics[i].total_lifetime_value <= AmountDueOf(metrics[i])

\* a Late bill, and a customer with an Unpaid bill whose lifetime value is
\* below what was billed
C30_Witness ==
    /\ Past("metrics") /\ pc # "raised"
    /\ \E k \in 1..Len(billing) :
          /\ billing[k].payment_status = "Late"
          /\ billing[k].late_fee > 0
    /\ \E i \in 1..Len(metrics) :
          /\ \E k \in 1..Len(billing) :
                /\ billing[k].customer_id = metrics[i].customer_id
                /\ billing[k].payment_status = "Unpaid"
          /\ metrics[i].total_lifetime_value < AmountDueOf(metrics[i])

====
